---- MODULE Spec2Model ----
(***************************************************************************)
(* Batch translation orchestration of the translator accelerator backend:  *)
(* the job tracker kept in Table Storage (table_job_tracker.py), the work  *)
(* queue (queue_service.py), the API process's start_batch_job and the     *)
(* worker's process_queue_message (batch_service.py) and the worker loop   *)
(* with its signal handler (worker.py).                                    *)
(*                                                                         *)
(* Every call to an external service (table, queue, blob store, engine)    *)
(* is one step, so that the steps of the API process and of the workers    *)
(* interleave as the processes do.  Timestamps are read off a logical      *)
(* clock; of the record's timestamps only completed_at is kept.            *)
(***************************************************************************)
EXTENDS Integers, FiniteSets, Sequences, TLC

\* ---------------------------------------------------------------- bounds
\* files in the source listing of the batch job
MaxFiles == 2
\* visibility timeouts that run out before the message is deleted, in one run
MaxTimeouts == 1
\* failures of external calls (blob store, engines, queue delete) in one run
MaxFaults == 1
\* tracker calls issued by the callers of SpecTracker
MaxCalls == 3

\* ------------------------------------------------------ program constants
\* "uvicorn app.worker:app --workers 2"
NumWorkers == 2
\* receive_messages(max_messages=10, ...)
MaxMessages == 10

API == 0
Workers == 1..NumWorkers
\* callers of the tracker in SpecTracker
Clients == {11, 12}
Procs == {API} \cup Workers \cup Clients

\* uuid4 job ids
JobIds == {"j1"}
Files == 1..MaxFiles
\* the ids the queue gives the messages: blob k's work item k, then the
\* payload of another producer
ForeignId == MaxFiles + 1
MsgIds == Files \cup {ForeignId}

VARIABLES
    table,      \* Table Storage: RowKey (job id) -> entity
    clock,      \* datetime.utcnow(), logical
    queue,      \* Queue Storage: message id -> [content, visible, dequeue_count]
    api,        \* the API process inside start_batch_job
    wpc,        \* each worker's place in process_messages / process_queue_message
    running,    \* BatchWorker.running
    batch,      \* the page of messages a worker received and has not yet taken
    cur,        \* the message a worker is handling
    outcome,    \* how process_queue_message is ending for that message
    call,       \* the tracker call each process has in flight
    faults,     \* failures of external calls so far
    timeouts,   \* visibility timeouts run out so far
    hist,       \* SpecTracker: the calls issued so far
    request,    \* the body of the POST /batch/jobs request
    containers, \* Blob Storage: the containers that exist
    blobs,      \* Blob Storage: the blob names in the target container
    ret,        \* what start_batch_job or create_job last gave its caller
    enq,        \* the payloads start_batch_job has sent, in order
    h,          \* SpecBatch: each worker's locals in process_queue_message
    sync,       \* SpecSync: start_batch_job's locals in synchronous mode
    arg,        \* SpecAnnotate: the arguments of annotate_text_with_dictionary
    out         \* what a read-only route, cleanup_old_jobs or the annotator gave

vars == <<table, clock, queue, api, wpc, running, batch, cur, outcome, call,
          faults, timeouts, hist, request, containers, blobs, ret, enq, h,
          sync, arg, out>>

\* ------------------------------------------------------------ job tracker

\* create_job's entity
NewEntity(total_files) ==
    [status |-> "queued", total_files |-> total_files, processed_files |-> 0,
     failed_files |-> 0, completed_at |-> 0, error |-> ""]

\* (the test with > for >=)
AllFilesDoneStrict(entity) ==
    /\ entity.processed_files + entity.failed_files > entity.total_files
    /\ entity.total_files > 0

\* the auto-complete test of update_progress
AllFilesDone(entity) ==
    /\ entity.processed_files + entity.failed_files >= entity.total_files
    /\ entity.total_files > 0

\* update_progress between get_entity and update_entity: the entity it
\* writes back, from the entity it read.  status "" is Python's None.
UpdatedEntity(entity, processed, failed, status, now) ==
    LET e1 == IF processed > 0
              THEN [entity EXCEPT !.processed_files = @ + processed]
              ELSE entity
        e2 == IF failed > 0
              THEN [e1 EXCEPT !.failed_files = @ + failed]
              ELSE e1
        e3 == IF status # "" THEN [e2 EXCEPT !.status = status] ELSE e2
    IN  IF AllFilesDone(e3) /\ e3.status # "completed"
        THEN [e3 EXCEPT !.status = "completed", !.completed_at = now]
        ELSE e3

\* mark_completed between get_entity and update_entity
MarkedEntity(entity, error, now) ==
    [entity EXCEPT !.status = IF error # "" THEN "failed" ELSE "completed",
                   !.completed_at = now,
                   !.error = IF error # "" THEN error ELSE @]

\* table_client.create_entity: ResourceExistsError is logged, not raised
create_job(t, job_id, total_files) ==
    IF job_id \in DOMAIN t THEN t
    ELSE [k \in DOMAIN t \cup {job_id} |->
            IF k = job_id THEN NewEntity(total_files) ELSE t[k]]

\* table_client.update_entity(entity, mode='replace'): no etag is passed, so
\* the write is unconditional; a missing row raises ResourceNotFoundError,
\* which the callers log and swallow
update_entity(t, job_id, entity) ==
    IF job_id \in DOMAIN t THEN [t EXCEPT ![job_id] = entity] ELSE t

NoEntity == NewEntity(0)
\* a tracker call in flight; result is what it gives its caller in the end
NoCall == [op |-> "none", job_id |-> "", found |-> FALSE, read |-> NoEntity,
           entity |-> NoEntity, status |-> "", result |-> "none"]

\* get_entity and the computation of update_progress, up to update_entity;
\* the ResourceNotFoundError of get_entity is caught and logged, as is every
\* other exception, and the method returns
update_progress_get(t, job_id, processed, failed, status, now) ==
    IF job_id \in DOMAIN t
    THEN [op |-> "update_progress", job_id |-> job_id, found |-> TRUE,
          read |-> t[job_id],
          entity |-> UpdatedEntity(t[job_id], processed, failed, status, now),
          status |-> status, result |-> "returned"]
    ELSE [op |-> "update_progress", job_id |-> job_id, found |-> FALSE,
          read |-> NoEntity, entity |-> NoEntity, status |-> status,
          result |-> "returned"]

mark_completed_get(t, job_id, error, now) ==
    IF job_id \in DOMAIN t
    THEN [op |-> "mark_completed", job_id |-> job_id, found |-> TRUE,
          read |-> t[job_id], entity |-> MarkedEntity(t[job_id], error, now),
          status |-> "", result |-> "returned"]
    ELSE [op |-> "mark_completed", job_id |-> job_id, found |-> FALSE,
          read |-> NoEntity, entity |-> NoEntity, status |-> "",
          result |-> "returned"]

\* (update_entity that inserts the row it does not find)
call_put_upsert(t, c) ==
    [k \in DOMAIN t \cup {c.job_id} |-> IF k = c.job_id THEN c.entity ELSE t[k]]

\* the write-back of a call in flight
call_put(t, c) == IF c.found THEN update_entity(t, c.job_id, c.entity) ELSE t

\* utcnow() moves on once a call has stamped completed_at
Tick(c) == IF c.found /\ c.entity.completed_at # c.read.completed_at
           THEN clock + 1 ELSE clock

\* ------------------------------------------------------------------ queue

\* Python's None, and the dictionary {}: "if dictionary" takes both as absent
None == <<>>

Malformed == [kind |-> "malformed", job_id |-> "", source_blob |-> 0,
              dictionary |-> None]
\* a JSON object that has no key 'job_id'
Incomplete == [kind |-> "incomplete", job_id |-> "", source_blob |-> 0,
               dictionary |-> None]
NoMsg == [id |-> 0, pop_receipt |-> 0, content |-> Malformed]

\* (a payload whose job_id is left empty)
WorkItemNoJob(job_id, blob, dictionary) ==
    [kind |-> "work", job_id |-> "", source_blob |-> blob, dictionary |-> dictionary]

\* start_batch_job's message; source_blob k stands for the k-th name of the
\* listing
WorkItem(job_id, blob, dictionary) ==
    [kind |-> "work", job_id |-> job_id, source_blob |-> blob,
     dictionary |-> dictionary]

\* queue_client.send_message
send_message(q, id, content) ==
    [k \in DOMAIN q \cup {id} |->
        IF k = id THEN [content |-> content, visible |-> TRUE, dequeue_count |-> 0]
        ELSE q[k]]

\* the messages a receive can hand out
Visible(q) == {id \in DOMAIN q : q[id].visible}

\* (a receive that leaves the messages visible)
LeaseVisible(q, page) ==
    [k \in DOMAIN q |->
        IF k \in page THEN [q[k] EXCEPT !.dequeue_count = @ + 1] ELSE q[k]]

\* queue_client.receive_messages: the page's messages become invisible for
\* the visibility timeout and get a new pop receipt
Lease(q, page) ==
    [k \in DOMAIN q |->
        IF k \in page
        THEN [q[k] EXCEPT !.visible = FALSE, !.dequeue_count = @ + 1]
        ELSE q[k]]

\* queue_client.delete_message succeeds while the pop receipt is the latest
CanDelete(q, m) == m.id \in DOMAIN q /\ q[m.id].dequeue_count = m.pop_receipt

Remove(q, id) == [k \in DOMAIN q \ {id} |-> q[k]]

\* the messages of a received page, as the worker holds them
Received(q, page) ==
    {[id |-> k, pop_receipt |-> q[k].dequeue_count, content |-> q[k].content] :
        k \in page}

\* a page holds at most max_messages messages
Pages(q) ==
    IF Cardinality(Visible(q)) <= MaxMessages THEN {Visible(q)}
    ELSE {p \in SUBSET Visible(q) : Cardinality(p) = MaxMessages}

\* ----------------------------------------------------------- blob storage

Containers == {"source", "target"}

\* the names list_blobs gives for the source container; the first two
\* differ in their directory part only
BlobName(k) ==
    IF k = 1 THEN [dir |-> "", file |-> 1]
    ELSE IF k = 2 THEN [dir |-> "docs", file |-> 1]
    ELSE [dir |-> "", file |-> k - 1]

\* source_blob.split('/')[-1]
base_name(source_blob) == BlobName(source_blob).file

\* (both outputs under nmt/)
BlobPathFlat(prefix, source_blob) == <<"nmt", base_name(source_blob)>>

\* f"nmt/{base_name}" and f"llm/{base_name}": a blob name is the sequence of
\* its segments between the slashes
BlobPath(prefix, source_blob) == <<prefix, base_name(source_blob)>>

\* blob_client.upload_blob(data, overwrite=overwrite) on the names of a
\* container: without overwrite a blob of that name raises
\* ResourceExistsError
upload_blob(store, name, overwrite) ==
    IF ~overwrite /\ name \in store
    THEN [store |-> store, raised |-> TRUE]
    ELSE [store |-> store \cup {name}, raised |-> FALSE]

\* (write_blob that passes overwrite=False)
write_blob_no_overwrite(store, name) == upload_blob(store, name, FALSE)

\* storage.write_blob(container, blob_name, content): overwrite keeps its
\* default, True
write_blob(store, name) == upload_blob(store, name, TRUE)

\* ------------------------------------------------------------------- text
\* A text is the sequence of its pieces: runs of word characters, blanks,
\* and runs of characters that are neither.  The pieces follow one another
\* with nothing in between, so that two word pieces side by side are one
\* longer word.

\* a run of the characters str.strip() removes
Blank == " "

\* the pieces of a marker that are not the translation or the term
MarkerOpen == "<mstrans:dictionary translation=\""
MarkerMid == "\">"
MarkerClose == "</mstrans:dictionary>"

\* the pieces that hold no word character; every other piece is a run of
\* word characters ([a-zA-Z0-9_])
NonWord == {Blank, "$", ".", "*", MarkerOpen, MarkerMid, MarkerClose}

\* the content read_blob gives for a source blob that is not empty
Content == <<"use", Blank, "AZURE", Blank, "Translator">>

\* what read_blob can give: nothing, blanks only, or Content
Contents == {<<>>, <<Blank>>, Content}

\* content.strip()
RECURSIVE strip(_)
strip(text) ==
    IF text = <<>> THEN text
    ELSE IF Head(text) = Blank THEN strip(Tail(text))
    ELSE IF text[Len(text)] = Blank THEN strip(SubSeq(text, 1, Len(text) - 1))
    ELSE text

\* a dictionary in the order of its keys
Glossary == <<[term |-> <<"Azure">>, translation |-> <<"Azur">>]>>

\* re.IGNORECASE
Lower(piece) ==
    IF piece \in {"Azure", "AZURE", "azure"} THEN "azure"
    ELSE IF piece \in {"Translator", "translator"} THEN "translator"
    ELSE IF piece \in {"API", "Api", "api"} THEN "api"
    ELSE piece

\* the characters of a piece
Chars(piece) ==
    IF Lower(piece) = "azure" THEN 5
    ELSE IF Lower(piece) = "translator" THEN 10
    ELSE IF piece = "Azur" THEN 4
    ELSE IF piece \in {Blank, "$", ".", "*"} THEN 1
    ELSE IF piece = "test" THEN 4
    ELSE 3

\* len(term)
RECURSIVE len(_)
len(term) ==
    IF term = <<>> THEN 0 ELSE Chars(Head(term)) + len(Tail(term))

\* sorted(dictionary.keys(), key=len, reverse=True): the longest first, the
\* keys of one length in their order in the dictionary
RECURSIVE sorted_terms(_)
sorted_terms(dictionary) ==
    IF dictionary = <<>> THEN <<>>
    ELSE LET e == Head(dictionary)
             rest == sorted_terms(Tail(dictionary))
         IN  SelectSeq(rest, LAMBDA x : len(x.term) > len(e.term))
                 \o <<e>>
                 \o SelectSeq(rest, LAMBDA x : len(x.term) <= len(e.term))

\* the piece before position k is a run of word characters; there is none
\* before the first position and none at the position after the last
WordAt(text, k) == k \in 1..Len(text) /\ text[k] \notin NonWord

\* \b between the pieces k - 1 and k: a word character on one side only
Boundary(text, k) == WordAt(text, k - 1) # WordAt(text, k)

\* re.escape(term) under re.IGNORECASE: the pieces of the term, one by one
Literal(text, term, i) ==
    /\ i + Len(term) - 1 <= Len(text)
    /\ \A k \in 1..Len(term) : Lower(text[i + k - 1]) = Lower(term[k])

\* (the pattern without its two \b)
MatchAtNoBoundary(text, term, i) == Literal(text, term, i)

\* rf'\b{escaped_term}\b' matches at piece i
MatchAt(text, term, i) ==
    /\ Literal(text, term, i)
    /\ Boundary(text, i)
    /\ Boundary(text, i + Len(term))

\* <mstrans:dictionary translation="{translation}">{term}</mstrans:dictionary>
Marker(entry) ==
    <<MarkerOpen>> \o entry.translation \o <<MarkerMid>>
        \o entry.term \o <<MarkerClose>>

\* pattern.sub(replacement, annotated_text), from piece i on
RECURSIVE sub(_, _, _)
sub(text, entry, i) ==
    IF i > Len(text) THEN <<>>
    ELSE IF MatchAt(text, entry.term, i)
         THEN Marker(entry) \o sub(text, entry, i + Len(entry.term))
         ELSE <<text[i]>> \o sub(text, entry, i + 1)

\* "for term in sorted_terms"
RECURSIVE annotate(_, _)
annotate(text, terms) ==
    IF terms = <<>> THEN text
    ELSE annotate(sub(text, Head(terms), 1), Tail(terms))

\* (a glossary of its own where none is given)
annotate_text_default(text, dictionary) ==
    annotate(text, sorted_terms(IF dictionary = <<>> THEN Glossary ELSE dictionary))

annotate_text_with_dictionary(text, dictionary) ==
    IF dictionary = None THEN text
    ELSE annotate(text, sorted_terms(dictionary))

\* ------------------------------------------------------- requests, returns

\* a request from one container to another, without a dictionary
PlainRequest ==
    [source_container |-> "source", target_container |-> "target",
     dictionary |-> None]

\* BatchJobRequest
Requests ==
    [source_container : Containers, target_container : Containers,
     dictionary : {None, Glossary}]

\* the arguments the route passes to BatchTranslationService.start_batch_job:
\* source_container, target_container, target_language, source_language and
\* prefix; the parameter dictionary keeps its default
ServiceArgs(body) ==
    [source_container |-> body.source_container,
     target_container |-> body.target_container,
     dictionary |-> None]

NoReturn == [op |-> "none", job_id |-> "", status |-> "", total_files |-> 0,
             result |-> "none", existed |-> FALSE]

\* a call that returns: start_batch_job its descriptor, create_job None;
\* existed tells whether create_job met a record of the job id
Returned(op, job_id, status, total_files, existed) ==
    [op |-> op, job_id |-> job_id, status |-> status, total_files |-> total_files,
     result |-> "returned", existed |-> existed]

\* a call that raises
Raised(op, job_id, exception) ==
    [op |-> op, job_id |-> job_id, status |-> "", total_files |-> 0,
     result |-> exception, existed |-> FALSE]

\* process_queue_message's locals: the text it translates, the text each
\* engine was sent, the blobs it wrote, and the call that raised
NoLocals == [annotated_content |-> <<>>, nmt_text |-> <<>>, llm_text |-> <<>>,
             written |-> {}, raised_at |-> ""]

\* ------------------------------------------------------------ initial state

\* start_batch_job has not been called in synchronous mode
SyncIdle == [pc |-> "idle", total |-> 0, blob |-> 0, processed_files |-> 0,
             failed_files |-> 0, tries |-> 0, nmt |-> "none", llm |-> "none",
             log |-> <<>>, last |-> [engine |-> "none", cause |-> "none",
                                     attempts |-> 0, time_up |-> FALSE,
                                     result |-> "none"]]
NoArg == [text |-> <<>>, dictionary |-> <<>>]
NoOut == [op |-> "none"]

EmptyTable == [k \in {} |-> NoEntity]
EmptyQueue == [k \in {} |-> [content |-> Malformed, visible |-> TRUE, dequeue_count |-> 0]]
ApiIdle == [pc |-> "idle", job_id |-> "", total |-> 0, sent |-> 0]
NoHist == [inc |-> 0, other |-> 0, forced |-> 0]

\* no job yet and the workers polling
InitCore ==
    /\ table = EmptyTable
    /\ clock = 1
    /\ api = ApiIdle
    /\ wpc = [w \in Workers |-> "poll"]
    /\ running = [w \in Workers |-> TRUE]
    /\ batch = [w \in Workers |-> {}]
    /\ cur = [w \in Workers |-> NoMsg]
    /\ outcome = [w \in Workers |-> "none"]
    /\ call = [p \in Procs |-> NoCall]
    /\ faults = 0
    /\ timeouts = 0
    /\ hist = NoHist
    /\ request = PlainRequest
    /\ ret = NoReturn
    /\ enq = <<>>
    /\ h = [w \in Workers |-> NoLocals]
    /\ sync = SyncIdle
    /\ out = NoOut

\* the source container in place, the target container not yet
InitState ==
    /\ InitCore
    /\ containers = {"source"}
    /\ blobs = {}
    /\ arg = NoArg

\* the queue "translation-jobs" is empty, or holds a payload that is not
\* JSON, sent by another producer
Init ==
    /\ InitState
    /\ queue \in {EmptyQueue, send_message(EmptyQueue, ForeignId, Malformed)}

\* -------------------------------------------- API process: start_batch_job

\* queue mode, a listing of n > 0 blobs: ensure_container_exists, list_blobs
\* and create_job
StartBatchJob(n) ==
    /\ api.pc = "idle"
    /\ containers' = containers \cup {ServiceArgs(request).target_container}
    /\ \E job_id \in JobIds \ DOMAIN table :
        /\ table' = create_job(table, job_id, n)
        /\ api' = [pc |-> "enqueue", job_id |-> job_id, total |-> n, sent |-> 0]
    /\ UNCHANGED <<clock, queue, wpc, running, batch, cur, outcome, call, faults,
                   timeouts, hist>>
    /\ UNCHANGED <<request, blobs, ret, enq, h>>
    /\ UNCHANGED <<sync, arg, out>>

\* one turn of "for blob in blobs": send_message
Enqueue ==
    /\ api.pc = "enqueue"
    /\ LET blob == api.sent + 1
           message == WorkItem(api.job_id, blob, ServiceArgs(request).dictionary)
       IN
        /\ queue' = send_message(queue, blob, message)
        /\ enq' = Append(enq, message)
        /\ api' = [api EXCEPT !.sent = blob,
                              !.pc = IF blob = api.total THEN "upd_get" ELSE "enqueue"]
    /\ UNCHANGED <<table, clock, wpc, running, batch, cur, outcome, call, faults,
                   timeouts, hist>>
    /\ UNCHANGED <<request, containers, blobs, ret, h>>
    /\ UNCHANGED <<sync, arg, out>>

\* update_progress(job_id, status='processing'): get_entity
ApiUpdateGet ==
    /\ api.pc = "upd_get"
    /\ LET c == update_progress_get(table, api.job_id, 0, 0, "processing", clock) IN
        /\ call' = [call EXCEPT ![API] = c]
        /\ clock' = Tick(c)
    /\ api' = [api EXCEPT !.pc = "upd_put"]
    /\ UNCHANGED <<table, queue, wpc, running, batch, cur, outcome, faults,
                   timeouts, hist>>
    /\ UNCHANGED <<request, containers, blobs, ret, enq, h>>
    /\ UNCHANGED <<sync, arg, out>>

\* update_progress(job_id, status='processing'): update_entity; then
\* start_batch_job returns its descriptor
ApiUpdatePut ==
    /\ api.pc = "upd_put"
    /\ table' = call_put(table, call[API])
    /\ call' = [call EXCEPT ![API] = NoCall]
    /\ api' = [api EXCEPT !.pc = "done"]
    /\ ret' = Returned("start_batch_job", api.job_id, "queued", api.total, FALSE)
    /\ UNCHANGED <<clock, queue, wpc, running, batch, cur, outcome, faults,
                   timeouts, hist>>
    /\ UNCHANGED <<request, containers, blobs, enq, h>>
    /\ UNCHANGED <<sync, arg, out>>

\* --------------------------------------------------------------- the queue

\* the visibility timeout of a received message runs out
VisibilityTimeout(id) ==
    /\ timeouts < MaxTimeouts
    /\ id \in DOMAIN queue
    /\ ~queue[id].visible
    /\ queue' = [queue EXCEPT ![id].visible = TRUE]
    /\ timeouts' = timeouts + 1
    /\ UNCHANGED <<table, clock, api, wpc, running, batch, cur, outcome, call,
                   faults, hist>>
    /\ UNCHANGED <<request, containers, blobs, ret, enq, h>>
    /\ UNCHANGED <<sync, arg, out>>

\* ------------------------------------------- worker: process_messages

\* (no delete_message after the handler)
AfterHandlerNeverDelete(how) == "next"

\* (delete_message in a finally clause)
AfterHandlerAlwaysDelete(how) == "delete"

\* the worker's branch once process_queue_message has ended: delete_message,
\* or "except Exception", which logs and goes on with the for loop
AfterHandler(how) == IF how = "raise" THEN "next" ELSE "delete"

\* the for loop goes on with the page's next message; with none left the
\* iterator asks the queue for its next page, as the next poll does after
\* sleep(2)
ForLoop(messages) == IF messages = {} THEN "poll" ELSE "next"

\* "while self.running" and receive_messages: a page of visible messages
Receive(w) ==
    /\ wpc[w] = "poll"
    /\ running[w]
    /\ \E page \in Pages(queue) :
        /\ page # {}
        /\ queue' = Lease(queue, page)
        /\ batch' = [batch EXCEPT ![w] = Received(queue', page)]
    /\ wpc' = [wpc EXCEPT ![w] = "next"]
    /\ UNCHANGED <<table, clock, api, running, cur, outcome, call, faults,
                   timeouts, hist>>
    /\ UNCHANGED <<request, containers, blobs, ret, enq, h>>
    /\ UNCHANGED <<sync, arg, out>>

\* "for message in messages": json.loads(message.content), whose error the
\* for loop's "except Exception" logs
NextMessage(w) ==
    /\ wpc[w] = "next"
    /\ \E m \in batch[w] :
        /\ batch' = [batch EXCEPT ![w] = @ \ {m}]
        /\ IF m.content.kind = "malformed"
           THEN /\ cur' = [cur EXCEPT ![w] = NoMsg]
                /\ wpc' = [wpc EXCEPT ![w] = ForLoop(batch'[w])]
           ELSE /\ cur' = [cur EXCEPT ![w] = m]
                /\ wpc' = [wpc EXCEPT ![w] = "handle"]
    /\ UNCHANGED <<table, clock, queue, api, running, outcome, call, faults,
                   timeouts, hist>>
    /\ UNCHANGED <<request, containers, blobs, ret, enq, h>>
    /\ UNCHANGED <<sync, arg, out>>

\* process_queue_message up to its update_progress: read_blob and the empty
\* test, translate, translate_with_llm, write_blob twice.  A failure of any
\* of these calls leads to the except branch; the second write_blob fails
\* with the first blob written.
process_queue_message(w) ==
    /\ wpc[w] = "handle"
    /\ \/ /\ faults < MaxFaults
          /\ faults' = faults + 1
          /\ outcome' = [outcome EXCEPT ![w] = "raise"]
          /\ blobs' \in {blobs,
                         write_blob(blobs,
                             BlobPath("nmt", cur[w].content.source_blob)).store}
       \/ /\ outcome' = [outcome EXCEPT ![w] = "empty"]
          /\ UNCHANGED <<faults, blobs>>
       \/ /\ outcome' = [outcome EXCEPT ![w] = "ok"]
          /\ blobs' = write_blob(write_blob(blobs,
                             BlobPath("nmt", cur[w].content.source_blob)).store,
                         BlobPath("llm", cur[w].content.source_blob)).store
          /\ UNCHANGED faults
    /\ wpc' = [wpc EXCEPT ![w] = "upd_get"]
    /\ UNCHANGED <<table, clock, queue, api, running, batch, cur, call, timeouts,
                   hist>>
    /\ UNCHANGED <<request, containers, ret, enq, h>>
    /\ UNCHANGED <<sync, arg, out>>

\* update_progress(job_id, processed=1) or (job_id, failed=1): get_entity
WorkerUpdateGet(w) ==
    /\ wpc[w] = "upd_get"
    /\ LET c == update_progress_get(table, cur[w].content.job_id,
                    IF outcome[w] = "ok" THEN 1 ELSE 0,
                    IF outcome[w] = "ok" THEN 0 ELSE 1, "", clock) IN
        /\ call' = [call EXCEPT ![w] = c]
        /\ clock' = Tick(c)
    /\ wpc' = [wpc EXCEPT ![w] = "upd_put"]
    /\ UNCHANGED <<table, queue, api, running, batch, cur, outcome, faults,
                   timeouts, hist>>
    /\ UNCHANGED <<request, containers, blobs, ret, enq, h>>
    /\ UNCHANGED <<sync, arg, out>>

\* update_entity; then the handler returns or raises, and its locals are gone
WorkerUpdatePut(w) ==
    /\ wpc[w] = "upd_put"
    /\ table' = call_put(table, call[w])
    /\ call' = [call EXCEPT ![w] = NoCall]
    /\ h' = [h EXCEPT ![w] = NoLocals]
    /\ IF AfterHandler(outcome[w]) = "delete"
       THEN /\ wpc' = [wpc EXCEPT ![w] = "delete"]
            /\ UNCHANGED <<cur, outcome>>
       ELSE /\ wpc' = [wpc EXCEPT ![w] = ForLoop(batch[w])]
            /\ cur' = [cur EXCEPT ![w] = NoMsg]
            /\ outcome' = [outcome EXCEPT ![w] = "none"]
    /\ UNCHANGED <<clock, queue, api, running, batch, faults, timeouts, hist>>
    /\ UNCHANGED <<request, containers, blobs, ret, enq>>
    /\ UNCHANGED <<sync, arg, out>>

\* delete_message(message.id, message.pop_receipt); its failure is logged by
\* the for loop's "except Exception"
DeleteMessage(w) ==
    /\ wpc[w] = "delete"
    /\ \/ /\ CanDelete(queue, cur[w])
          /\ queue' = Remove(queue, cur[w].id)
          /\ UNCHANGED faults
       \/ /\ ~CanDelete(queue, cur[w])
          /\ UNCHANGED <<queue, faults>>
       \/ /\ faults < MaxFaults
          /\ faults' = faults + 1
          /\ UNCHANGED queue
    /\ wpc' = [wpc EXCEPT ![w] = ForLoop(batch[w])]
    /\ cur' = [cur EXCEPT ![w] = NoMsg]
    /\ outcome' = [outcome EXCEPT ![w] = "none"]
    /\ UNCHANGED <<table, clock, api, running, batch, call, timeouts, hist>>
    /\ UNCHANGED <<request, containers, blobs, ret, enq, h>>
    /\ UNCHANGED <<sync, arg, out>>

\* (worker.stop() alone, without sys.exit)
signal_handler_stop_only(w) ==
    /\ wpc[w] # "exited"
    /\ running[w]
    /\ running' = [running EXCEPT ![w] = FALSE]
    /\ UNCHANGED <<table, clock, queue, api, wpc, batch, cur, outcome, call, faults,
                   timeouts, hist, request, containers, blobs, ret, enq, h>>
    /\ UNCHANGED <<sync, arg, out>>

\* signal_handler: worker.stop(), then sys.exit(0) raises SystemExit where
\* the main thread stands; no "except Exception" catches it
signal_handler(w) ==
    /\ wpc[w] # "exited"
    /\ running' = [running EXCEPT ![w] = FALSE]
    /\ wpc' = [wpc EXCEPT ![w] = "exited"]
    /\ batch' = [batch EXCEPT ![w] = {}]
    /\ call' = [call EXCEPT ![w] = NoCall]
    /\ outcome' = [outcome EXCEPT ![w] = "none"]
    /\ h' = [h EXCEPT ![w] = NoLocals]
    /\ UNCHANGED <<table, clock, queue, api, cur, faults, timeouts, hist>>
    /\ UNCHANGED <<request, containers, blobs, ret, enq>>
    /\ UNCHANGED <<sync, arg, out>>

Next ==
    \/ \E n \in Files : StartBatchJob(n)
    \/ Enqueue
    \/ ApiUpdateGet
    \/ ApiUpdatePut
    \/ \E id \in MsgIds : VisibilityTimeout(id)
    \/ \E w \in Workers : Receive(w)
    \/ \E w \in Workers : NextMessage(w)
    \/ \E w \in Workers : process_queue_message(w)
    \/ \E w \in Workers : WorkerUpdateGet(w)
    \/ \E w \in Workers : WorkerUpdatePut(w)
    \/ \E w \in Workers : DeleteMessage(w)
    \/ \E w \in Workers : signal_handler(w)

Spec == Init /\ [][Next]_vars

\* ------------------------------------------------ queue mode, no failures
\* The API process and the workers when every call succeeds, no visibility
\* timeout runs out and no signal arrives: each process goes on with its next
\* statement whenever it has one.

\* start_batch_job, statement by statement
ApiStep ==
    \/ \E n \in Files : StartBatchJob(n)
    \/ Enqueue
    \/ ApiUpdateGet
    \/ ApiUpdatePut

\* process_messages of worker w, statement by statement, every call of the
\* handler succeeding
WorkerStep(w) ==
    \/ Receive(w)
    \/ NextMessage(w)
    \/ (process_queue_message(w) /\ faults' = faults)
    \/ WorkerUpdateGet(w)
    \/ WorkerUpdatePut(w)
    \/ (DeleteMessage(w) /\ faults' = faults)

NextLive ==
    \/ ApiStep
    \/ \E w \in Workers : WorkerStep(w)

\* the event loop runs the request to its end, and each worker process runs
\* while it has a statement to execute
Fairness ==
    /\ WF_vars(ApiStep)
    /\ \A w \in Workers : WF_vars(WorkerStep(w))

SpecLive == Init /\ [][NextLive]_vars /\ Fairness

\* ------------------------------------------ the tracker under its callers
\* TableJobTracker driven through its public methods by callers whose
\* get_entity and update_entity steps interleave.

InitTracker ==
    /\ Init
    /\ queue = EmptyQueue

\* create_job(job_id, n): ResourceExistsError is logged as a warning, and
\* the method returns.  A create_job for a job id that has a record counts
\* among the calls of the history.
ClientCreate(c, job_id, n) ==
    /\ call[c] = NoCall
    /\ job_id \in DOMAIN table => hist.inc + hist.other < MaxCalls
    /\ table' = create_job(table, job_id, n)
    /\ ret' = Returned("create_job", job_id, "", 0, job_id \in DOMAIN table)
    /\ hist' = IF job_id \in DOMAIN table THEN [hist EXCEPT !.other = @ + 1]
               ELSE hist
    /\ UNCHANGED <<clock, queue, api, wpc, running, batch, cur, outcome, call,
                   faults, timeouts>>
    /\ UNCHANGED <<request, containers, blobs, enq, h>>
    /\ UNCHANGED <<sync, arg, out>>

\* what a call adds to the history: inc counts the calls "+1 processed" and
\* "+1 failed" on an existing job, forced the calls that name the status
\* completed or are mark_completed, other every call that is not an inc
Logged(c) ==
    LET unit == /\ c.op = "update_progress"
                /\ c.found
                /\ c.status = ""
                /\ c.entity.processed_files + c.entity.failed_files
                     = c.read.processed_files + c.read.failed_files + 1
        force == c.op = "mark_completed" \/ c.status = "completed"
    IN  [inc |-> hist.inc + (IF unit THEN 1 ELSE 0),
         other |-> hist.other + (IF unit THEN 0 ELSE 1),
         forced |-> hist.forced + (IF force THEN 1 ELSE 0)]

\* update_progress(job_id, processed, failed, status): get_entity
ClientUpdateGet(c, job_id, processed, failed, status) ==
    /\ call[c] = NoCall
    /\ hist.inc + hist.other < MaxCalls
    /\ LET k == update_progress_get(table, job_id, processed, failed, status, clock) IN
        /\ call' = [call EXCEPT ![c] = k]
        /\ clock' = Tick(k)
        /\ hist' = Logged(k)
    /\ UNCHANGED <<table, queue, api, wpc, running, batch, cur, outcome, faults,
                   timeouts>>
    /\ UNCHANGED <<request, containers, blobs, ret, enq, h>>
    /\ UNCHANGED <<sync, arg, out>>

\* mark_completed(job_id, error): get_entity
ClientMarkGet(c, job_id, error) ==
    /\ call[c] = NoCall
    /\ hist.inc + hist.other < MaxCalls
    /\ LET k == mark_completed_get(table, job_id, error, clock) IN
        /\ call' = [call EXCEPT ![c] = k]
        /\ clock' = Tick(k)
        /\ hist' = Logged(k)
    /\ UNCHANGED <<table, queue, api, wpc, running, batch, cur, outcome, faults,
                   timeouts>>
    /\ UNCHANGED <<request, containers, blobs, ret, enq, h>>
    /\ UNCHANGED <<sync, arg, out>>

\* update_entity of the call in flight, then return
ClientPut(c) ==
    /\ call[c] # NoCall
    /\ table' = call_put(table, call[c])
    /\ call' = [call EXCEPT ![c] = NoCall]
    /\ UNCHANGED <<clock, queue, api, wpc, running, batch, cur, outcome, faults,
                   timeouts, hist>>
    /\ UNCHANGED <<request, containers, blobs, ret, enq, h>>
    /\ UNCHANGED <<sync, arg, out>>

StatusArgs == {"", "processing", "completed", "failed"}

NextTracker ==
    \/ \E c \in Clients, j \in JobIds, n \in Files : ClientCreate(c, j, n)
    \/ \E c \in Clients, j \in JobIds, processed \in {0, 1}, failed \in {0, 1},
          status \in StatusArgs : ClientUpdateGet(c, j, processed, failed, status)
    \/ \E c \in Clients, j \in JobIds, error \in {"", "error"} : ClientMarkGet(c, j, error)
    \/ \E c \in Clients : ClientPut(c)

SpecTracker == InitTracker /\ [][NextTracker]_vars

\* ------------------------------- start_batch_job and the handler, call by call
\* POST /batch/jobs with any body, each call of start_batch_job to the blob
\* store, the tracker and the queue a step of its own, and one worker
\* ("python -m app.worker") whose process_queue_message is followed call by
\* call, and which no signal stops.  Queue mode: enable_batch_queue has its
\* default, True.

Handlers == {1}

\* (no validation of the containers)
same_container_unchecked(args) == FALSE

\* "if source_container == target_container"
same_container(args) == args.source_container = args.target_container

\* (an empty listing handled as any other)
not_blobs_never(n) == FALSE

\* "if not blobs"
not_blobs(n) == n = 0

\* the queue is empty, or holds a JSON object without job_id, sent by
\* another producer
InitBatch ==
    /\ InitState
    /\ queue \in {EmptyQueue, send_message(EmptyQueue, ForeignId, Incomplete)}

\* the route calls start_batch_job: uuid4, then the validation of the
\* containers, which raises ValueError
PostBatchJobs(body) ==
    /\ api.pc = "idle"
    /\ request' = body
    /\ \E job_id \in JobIds \ DOMAIN table :
        IF same_container(ServiceArgs(body))
        THEN /\ api' = [api EXCEPT !.pc = "raised", !.job_id = job_id]
             /\ ret' = Raised("start_batch_job", job_id, "ValueError")
        ELSE /\ api' = [api EXCEPT !.pc = "ensure", !.job_id = job_id]
             /\ UNCHANGED ret
    /\ UNCHANGED <<table, clock, queue, wpc, running, batch, cur, outcome,
                   call, faults, timeouts, hist, containers, blobs, enq, h>>
    /\ UNCHANGED <<sync, arg, out>>

\* storage.ensure_container_exists(target_container)
ensure_container_exists ==
    /\ api.pc = "ensure"
    /\ containers' = containers \cup {ServiceArgs(request).target_container}
    /\ api' = [api EXCEPT !.pc = "list"]
    /\ UNCHANGED <<table, clock, queue, wpc, running, batch, cur, outcome,
                   call, faults, timeouts, hist, request, blobs, ret, enq, h>>
    /\ UNCHANGED <<sync, arg, out>>

\* storage.list_blobs(source_container): n names; a container that does not
\* exist raises ResourceNotFoundError, which start_batch_job raises again.
\* Then "if not blobs": the descriptor of a completed job.
list_blobs(n) ==
    /\ api.pc = "list"
    /\ IF ServiceArgs(request).source_container \notin containers
       THEN /\ n = 0
            /\ api' = [api EXCEPT !.pc = "raised"]
            /\ ret' = Raised("start_batch_job", api.job_id, "ResourceNotFoundError")
       ELSE IF not_blobs(n)
       THEN /\ api' = [api EXCEPT !.pc = "done", !.total = 0]
            /\ ret' = Returned("start_batch_job", api.job_id, "completed", 0, FALSE)
       ELSE /\ api' = [api EXCEPT !.pc = "create", !.total = n]
            /\ UNCHANGED ret
    /\ UNCHANGED <<table, clock, queue, wpc, running, batch, cur, outcome,
                   call, faults, timeouts, hist, request, containers, blobs,
                   enq, h>>
    /\ UNCHANGED <<sync, arg, out>>

\* job_tracker.create_job(job_id, total_files, ...), then "for blob in blobs"
CreateJob ==
    /\ api.pc = "create"
    /\ table' = create_job(table, api.job_id, api.total)
    /\ api' = [api EXCEPT !.pc = IF api.total > 0 THEN "enqueue" ELSE "upd_get"]
    /\ UNCHANGED <<clock, queue, wpc, running, batch, cur, outcome, call,
                   faults, timeouts, hist, request, containers, blobs, ret,
                   enq, h>>
    /\ UNCHANGED <<sync, arg, out>>

\* the fields of message_content, then storage.read_blob and the empty test.
\* Without the key 'job_id' the first statement raises KeyError, and the
\* except clause, which names job_id, raises UnboundLocalError in its turn:
\* that one reaches the worker loop, with no call to the tracker.
read_blob(w) ==
    /\ wpc[w] = "handle"
    /\ IF cur[w].content.kind = "incomplete"
       THEN /\ wpc' = [wpc EXCEPT ![w] = ForLoop(batch[w])]
            /\ cur' = [cur EXCEPT ![w] = NoMsg]
            /\ UNCHANGED <<faults, outcome, h>>
       ELSE /\ UNCHANGED cur
            /\ \/ /\ faults < MaxFaults
                  /\ faults' = faults + 1
                  /\ outcome' = [outcome EXCEPT ![w] = "raise"]
                  /\ h' = [h EXCEPT ![w] = [NoLocals EXCEPT !.raised_at = "read_blob"]]
               \/ \E content \in Contents :
                    /\ IF strip(content) = <<>>
                       THEN /\ outcome' = [outcome EXCEPT ![w] = "empty"]
                            /\ h' = [h EXCEPT ![w] = NoLocals]
                       ELSE /\ outcome' = [outcome EXCEPT ![w] = "none"]
                            /\ h' = [h EXCEPT ![w] =
                                 [NoLocals EXCEPT !.annotated_content =
                                    IF cur[w].content.dictionary # None
                                    THEN annotate_text_with_dictionary(content,
                                             cur[w].content.dictionary)
                                    ELSE content]]
                    /\ UNCHANGED faults
            /\ wpc' = [wpc EXCEPT ![w] = IF outcome'[w] = "none" THEN "translate"
                                          ELSE "upd_get"]
    /\ UNCHANGED <<table, clock, queue, api, running, batch, call, timeouts,
                   hist, request, containers, blobs, ret, enq>>
    /\ UNCHANGED <<sync, arg, out>>

\* translator.translate(text=annotated_content, ...)
translate(w) ==
    /\ wpc[w] = "translate"
    /\ \/ /\ faults < MaxFaults
          /\ faults' = faults + 1
          /\ outcome' = [outcome EXCEPT ![w] = "raise"]
          /\ h' = [h EXCEPT ![w].nmt_text = h[w].annotated_content,
                            ![w].raised_at = "translate"]
          /\ wpc' = [wpc EXCEPT ![w] = "upd_get"]
       \/ /\ h' = [h EXCEPT ![w].nmt_text = h[w].annotated_content]
          /\ wpc' = [wpc EXCEPT ![w] = "translate_with_llm"]
          /\ UNCHANGED <<faults, outcome>>
    /\ UNCHANGED <<table, clock, queue, api, running, batch, cur, call,
                   timeouts, hist, request, containers, blobs, ret, enq>>
    /\ UNCHANGED <<sync, arg, out>>

\* translator.translate_with_llm(text=annotated_content, ...)
translate_with_llm(w) ==
    /\ wpc[w] = "translate_with_llm"
    /\ \/ /\ faults < MaxFaults
          /\ faults' = faults + 1
          /\ outcome' = [outcome EXCEPT ![w] = "raise"]
          /\ h' = [h EXCEPT ![w].llm_text = h[w].annotated_content,
                            ![w].raised_at = "translate_with_llm"]
          /\ wpc' = [wpc EXCEPT ![w] = "upd_get"]
       \/ /\ h' = [h EXCEPT ![w].llm_text = h[w].annotated_content]
          /\ wpc' = [wpc EXCEPT ![w] = "write_nmt"]
          /\ UNCHANGED <<faults, outcome>>
    /\ UNCHANGED <<table, clock, queue, api, running, batch, cur, call,
                   timeouts, hist, request, containers, blobs, ret, enq>>
    /\ UNCHANGED <<sync, arg, out>>

\* storage.write_blob(target_container, nmt_blob_name, nmt_translation): it
\* raises when the store fails, or when upload_blob does
write_blob_nmt(w) ==
    /\ wpc[w] = "write_nmt"
    /\ LET nmt_blob_name == BlobPath("nmt", cur[w].content.source_blob)
           r == write_blob(blobs, nmt_blob_name)
       IN  \/ /\ IF r.raised THEN UNCHANGED faults
                  ELSE faults < MaxFaults /\ faults' = faults + 1
              /\ outcome' = [outcome EXCEPT ![w] = "raise"]
              /\ h' = [h EXCEPT ![w].raised_at = "write_nmt"]
              /\ wpc' = [wpc EXCEPT ![w] = "upd_get"]
              /\ UNCHANGED blobs
           \/ /\ ~r.raised
              /\ blobs' = r.store
              /\ h' = [h EXCEPT ![w].written = @ \cup {nmt_blob_name}]
              /\ wpc' = [wpc EXCEPT ![w] = "write_llm"]
              /\ UNCHANGED <<faults, outcome>>
    /\ UNCHANGED <<table, clock, queue, api, running, batch, cur, call,
                   timeouts, hist, request, containers, ret, enq>>
    /\ UNCHANGED <<sync, arg, out>>

\* storage.write_blob(target_container, llm_blob_name, llm_translation); with
\* both blobs written the handler goes on to update_progress(processed=1)
write_blob_llm(w) ==
    /\ wpc[w] = "write_llm"
    /\ LET llm_blob_name == BlobPath("llm", cur[w].content.source_blob)
           r == write_blob(blobs, llm_blob_name)
       IN  \/ /\ IF r.raised THEN UNCHANGED faults
                  ELSE faults < MaxFaults /\ faults' = faults + 1
              /\ outcome' = [outcome EXCEPT ![w] = "raise"]
              /\ h' = [h EXCEPT ![w].raised_at = "write_llm"]
              /\ UNCHANGED blobs
           \/ /\ ~r.raised
              /\ blobs' = r.store
              /\ h' = [h EXCEPT ![w].written = @ \cup {llm_blob_name}]
              /\ outcome' = [outcome EXCEPT ![w] = "ok"]
              /\ UNCHANGED faults
    /\ wpc' = [wpc EXCEPT ![w] = "upd_get"]
    /\ UNCHANGED <<table, clock, queue, api, running, batch, cur, call,
                   timeouts, hist, request, containers, ret, enq>>
    /\ UNCHANGED <<sync, arg, out>>

NextBatch ==
    \/ \E body \in Requests : PostBatchJobs(body)
    \/ ensure_container_exists
    \/ \E n \in 0..MaxFiles : list_blobs(n)
    \/ CreateJob
    \/ Enqueue
    \/ ApiUpdateGet
    \/ ApiUpdatePut
    \/ \E id \in MsgIds : VisibilityTimeout(id)
    \/ \E w \in Handlers : Receive(w)
    \/ \E w \in Handlers : NextMessage(w)
    \/ \E w \in Handlers : read_blob(w)
    \/ \E w \in Handlers : translate(w)
    \/ \E w \in Handlers : translate_with_llm(w)
    \/ \E w \in Handlers : write_blob_nmt(w)
    \/ \E w \in Handlers : write_blob_llm(w)
    \/ \E w \in Handlers : WorkerUpdateGet(w)
    \/ \E w \in Handlers : WorkerUpdatePut(w)
    \/ \E w \in Handlers : DeleteMessage(w)

SpecBatch == InitBatch /\ [][NextBatch]_vars

\* ------------------------------------ start_batch_job, send_message failing
\* The queue-mode path of start_batch_job with a queue that may refuse a
\* message, and one worker that handles what was enqueued.

\* queue.send_message raises in a turn of "for blob in blobs": QueueService
\* logs and raises again, and so does start_batch_job's "except Exception";
\* the record create_job wrote and the messages already sent stay
EnqueueFails ==
    /\ api.pc = "enqueue"
    /\ faults < MaxFaults
    /\ faults' = faults + 1
    /\ api' = [api EXCEPT !.pc = "raised"]
    /\ ret' = Raised("start_batch_job", api.job_id, "HttpResponseError")
    /\ UNCHANGED <<table, clock, queue, wpc, running, batch, cur, outcome, call,
                   timeouts, hist, request, containers, blobs, enq, h>>
    /\ UNCHANGED <<sync, arg, out>>

NextEnqueue ==
    \/ \E body \in Requests : PostBatchJobs(body)
    \/ ensure_container_exists
    \/ \E n \in 0..MaxFiles : list_blobs(n)
    \/ CreateJob
    \/ Enqueue
    \/ EnqueueFails
    \/ ApiUpdateGet
    \/ ApiUpdatePut
    \/ \E id \in MsgIds : VisibilityTimeout(id)
    \/ \E w \in Handlers : Receive(w)
    \/ \E w \in Handlers : NextMessage(w)
    \/ \E w \in Handlers : process_queue_message(w)
    \/ \E w \in Handlers : WorkerUpdateGet(w)
    \/ \E w \in Handlers : WorkerUpdatePut(w)
    \/ \E w \in Handlers : DeleteMessage(w)

SpecEnqueue == Init /\ [][NextEnqueue]_vars

\* ------------------------------------------ start_batch_job, synchronous mode
\* enable_batch_queue set to False: start_batch_job translates the listed
\* blobs one by one, each call to the blob store and each request to an
\* engine a step, and any of them may fail.  The job tracker and the queue
\* are not used.

\* backoff.on_exception(..., max_tries=3, ...)
MaxTries == 3

\* what a request to an engine can meet: a response with status 200, 429
\* or another status >= 400, or an error of the connection
Responses == {"200", "429", "4xx", "RequestError"}

\* the exception that leaves the body of _make_request or _make_llm_request:
\* "except httpx.RequestError" raises TranslatorServiceException in its place
make_request(response) ==
    IF response = "200" THEN "none"
    ELSE IF response = "429" THEN "RateLimitException"
    ELSE "TranslatorServiceException"

\* backoff.on_exception(backoff.expo, (httpx.RequestError, RateLimitException),
\* max_tries=3, max_time=30): whether the call is made again after an
\* attempt that raised
on_exception(exception, attempts, time_up) ==
    /\ exception \in {"RequestError", "RateLimitException"}
    /\ attempts < MaxTries
    /\ ~time_up

\* the for loop of synchronous mode goes on with the next blob, or the
\* summary is returned; the file that ends is counted as told
EndOfFile(s, counted) ==
    LET s1 == [s EXCEPT
                 !.processed_files = IF counted = "processed" THEN @ + 1 ELSE @,
                 !.failed_files = IF counted = "failed" THEN @ + 1 ELSE @,
                 !.log = Append(@, [nmt |-> s.nmt, llm |-> s.llm,
                                    counted |-> counted]),
                 !.nmt = "none", !.llm = "none", !.tries = 0]
    IN  IF s.blob = s.total THEN [s1 EXCEPT !.pc = "done"]
        ELSE [s1 EXCEPT !.pc = "read", !.blob = @ + 1]

\* (an error of one file ends the batch)
OuterExceptAbort(s) == [s EXCEPT !.pc = "done"]

\* the for loop's "except Exception": failed_files += 1
OuterExcept(s) == EndOfFile(s, "failed")

\* "if not content.strip()": failed_files += 1; continue
EmptyFile(s) == EndOfFile(s, "failed")

\* the except clause of the NMT block: failed_files += 1; continue
NmtExcept(s) == EndOfFile([s EXCEPT !.nmt = "failed"], "failed")

\* (a failure of the LLM block counted as a failed file)
AfterLlmStrict(s) ==
    EndOfFile(s, IF s.llm = "failed" THEN "failed" ELSE "processed")

\* after the LLM block, whose except clause only logs: processed_files += 1
AfterLlm(s) == EndOfFile(s, "processed")

InitSync ==
    /\ InitState
    /\ queue = EmptyQueue

\* start_batch_job up to the for loop: ensure_container_exists and a
\* listing of n > 0 blobs
StartBatchJobSync(n) ==
    /\ sync.pc = "idle"
    /\ containers' = containers \cup {ServiceArgs(request).target_container}
    /\ sync' = [SyncIdle EXCEPT !.pc = "read", !.total = n, !.blob = 1]
    /\ UNCHANGED <<table, clock, queue, api, wpc, running, batch, cur, outcome,
                   call, faults, timeouts, hist, request, blobs, ret, enq, h,
                   arg, out>>

\* storage.read_blob and the empty test
SyncReadBlob ==
    /\ sync.pc = "read"
    /\ \/ sync' = OuterExcept(sync)
       \/ \E content \in Contents :
            sync' = IF strip(content) = <<>> THEN EmptyFile(sync)
                    ELSE [sync EXCEPT !.pc = "translate"]
    /\ UNCHANGED <<table, clock, queue, api, wpc, running, batch, cur, outcome,
                   call, faults, timeouts, hist, request, containers, blobs,
                   ret, enq, h, arg, out>>

\* one attempt of the request that translate or translate_with_llm makes:
\* the call returns, is made again, or raises to start_batch_job
Attempt(s, engine, response, time_up) ==
    LET exception == make_request(response)
        attempts == s.tries + 1
        ended(result) == [engine |-> engine, cause |-> response,
                          attempts |-> attempts, time_up |-> time_up,
                          result |-> result]
    IN  IF exception = "none"
        THEN [s EXCEPT !.last = ended("returned"), !.tries = 0,
                       !.pc = IF engine = "nmt" THEN "write_nmt" ELSE "write_llm"]
        ELSE IF on_exception(exception, attempts, time_up)
        THEN [s EXCEPT !.tries = attempts]
        ELSE IF engine = "nmt"
        THEN NmtExcept([s EXCEPT !.last = ended("raised")])
        ELSE AfterLlm([s EXCEPT !.last = ended("raised"), !.llm = "failed"])

\* translator.translate(text=annotated_content, ...)
SyncTranslate(response, time_up) ==
    /\ sync.pc = "translate"
    /\ sync' = Attempt(sync, "nmt", response, time_up)
    /\ UNCHANGED <<table, clock, queue, api, wpc, running, batch, cur, outcome,
                   call, faults, timeouts, hist, request, containers, blobs,
                   ret, enq, h, arg, out>>

\* storage.write_blob(target_container, nmt_path, nmt_translation), in the
\* NMT block
SyncWriteNmt ==
    /\ sync.pc = "write_nmt"
    /\ LET r == write_blob(blobs, BlobPath("nmt", sync.blob))
       IN  \/ /\ sync' = NmtExcept(sync)
              /\ UNCHANGED blobs
           \/ /\ ~r.raised
              /\ blobs' = r.store
              /\ sync' = [sync EXCEPT !.nmt = "written",
                                      !.pc = "translate_with_llm"]
    /\ UNCHANGED <<table, clock, queue, api, wpc, running, batch, cur, outcome,
                   call, faults, timeouts, hist, request, containers, ret, enq,
                   h, arg, out>>

\* translator.translate_with_llm(text=annotated_content, ...)
SyncTranslateWithLlm(response, time_up) ==
    /\ sync.pc = "translate_with_llm"
    /\ sync' = Attempt(sync, "llm", response, time_up)
    /\ UNCHANGED <<table, clock, queue, api, wpc, running, batch, cur, outcome,
                   call, faults, timeouts, hist, request, containers, blobs,
                   ret, enq, h, arg, out>>

\* storage.write_blob(target_container, llm_path, llm_translation), in the
\* LLM block; then processed_files += 1
SyncWriteLlm ==
    /\ sync.pc = "write_llm"
    /\ LET r == write_blob(blobs, BlobPath("llm", sync.blob))
       IN  \/ /\ sync' = AfterLlm([sync EXCEPT !.llm = "failed"])
              /\ UNCHANGED blobs
           \/ /\ ~r.raised
              /\ blobs' = r.store
              /\ sync' = AfterLlm([sync EXCEPT !.llm = "written"])
    /\ UNCHANGED <<table, clock, queue, api, wpc, running, batch, cur, outcome,
                   call, faults, timeouts, hist, request, containers, ret, enq,
                   h, arg, out>>

NextSync ==
    \/ \E n \in Files : StartBatchJobSync(n)
    \/ SyncReadBlob
    \/ \E response \in Responses, time_up \in BOOLEAN :
          SyncTranslate(response, time_up)
    \/ SyncWriteNmt
    \/ \E response \in Responses, time_up \in BOOLEAN :
          SyncTranslateWithLlm(response, time_up)
    \/ SyncWriteLlm

SpecSync == InitSync /\ [][NextSync]_vars

\* ------------------------------------------------ GET /batch/translations
\* list_translated_files over a container that holds any of a few names.

\* the names a container may hold: the outputs of the listed blobs, and
\* names that have a directory "nmt" below the prefix nmt/
TargetNames ==
    UNION {{<<"nmt", file>>, <<"llm", file>>, <<"nmt", "nmt", file>>} :
              file \in Files}

\* storage.list_blobs(container_name, prefix="nmt/"): the names that start
\* with the prefix
list_blobs_prefix(store, prefix) ==
    {name \in store : Len(name) >= 2 /\ name[1] = prefix}

\* name.replace('nmt/', ''): every occurrence goes, that is every segment
\* "nmt" that a slash follows
RECURSIVE replace(_, _)
replace(name, prefix) ==
    IF Len(name) <= 1 THEN name
    ELSE IF Head(name) = prefix THEN replace(Tail(name), prefix)
    ELSE <<Head(name)>> \o replace(Tail(name), prefix)

\* BatchTranslationService.list_translated_files: the keys of nmt_dict and
\* llm_dict, their common names, and the three counts
list_translated_files(store) ==
    LET nmt_files == list_blobs_prefix(store, "nmt")
        llm_files == list_blobs_prefix(store, "llm")
        nmt_dict == {replace(name, "nmt") : name \in nmt_files}
        llm_dict == {replace(name, "llm") : name \in llm_files}
        common_names == nmt_dict \cap llm_dict
    IN  [op |-> "list_translated_files", files |-> common_names,
         total_nmt |-> Cardinality(nmt_files),
         total_llm |-> Cardinality(llm_files),
         matched |-> Cardinality(common_names)]

InitFiles ==
    /\ InitCore
    /\ queue = EmptyQueue
    /\ containers = Containers
    /\ blobs \in SUBSET TargetNames
    /\ arg = NoArg

\* the route calls batch_service.list_translated_files(container_name)
ListTranslatedFiles ==
    /\ out = NoOut
    /\ out' = list_translated_files(blobs)
    /\ UNCHANGED <<table, clock, queue, api, wpc, running, batch, cur, outcome,
                   call, faults, timeouts, hist, request, containers, blobs,
                   ret, enq, h, sync, arg>>

NextFiles == ListTranslatedFiles

SpecFiles == InitFiles /\ [][NextFiles]_vars

\* ------------------------------------- GET /batch/jobs/{job_id} and cleanup
\* The status route and cleanup_old_jobs over a table that one caller of
\* the tracker fills, while time passes.

\* hours that pass in one run
MaxClock == 3
\* the greatest max_age_hours passed to cleanup_old_jobs
MaxAge == 1

\* datetime.isoformat(): a string that is not empty, and whose order is the
\* order of the times
isoformat(t) == <<t>>

\* the property completed_at of an entity: '' until it is stamped
completed_at_str(entity) ==
    IF entity.completed_at = 0 THEN <<>> ELSE isoformat(entity.completed_at)

\* the filter's "lt" on two strings: the order of their characters, a
\* string before all those it begins
RECURSIVE lt(_, _)
lt(a, b) ==
    IF b = <<>> THEN FALSE
    ELSE IF a = <<>> THEN TRUE
    ELSE IF Head(a) # Head(b) THEN Head(a) < Head(b)
    ELSE lt(Tail(a), Tail(b))

\* query_entities("PartitionKey eq 'job' and completed_at lt '{cutoff_str}'")
query_entities(t, cutoff_str) ==
    {job_id \in DOMAIN t : lt(completed_at_str(t[job_id]), cutoff_str)}

\* TableJobTracker.cleanup_old_jobs: delete_entity for every entity of the
\* query
cleanup_old_jobs(t, now, max_age_hours) ==
    LET cutoff_time == now - max_age_hours
        entities == query_entities(t, isoformat(cutoff_time))
    IN  [table |-> [job_id \in DOMAIN t \ entities |-> t[job_id]],
         deleted_count |-> Cardinality(entities),
         cutoff_time |-> cutoff_time]

\* the keys of the dictionary TableJobTracker.get_status returns
StatusKeys ==
    {"job_id", "status", "total_files", "processed_files", "failed_files",
     "source_container", "target_container", "target_language",
     "source_language", "created_at", "updated_at", "completed_at", "error",
     "message"}

\* the fields of BatchJobStatusResponse, none of which has a default
RequiredFields == {"job_id", "status", "queue_length"}

\* TableJobTracker.get_status, which BatchTranslationService.get_job_status
\* passes on: the dictionary, or None for ResourceNotFoundError
get_status(t, job_id) ==
    IF job_id \in DOMAIN t
    THEN [value |-> "dict", keys |-> StatusKeys, status |-> t[job_id].status]
    ELSE [value |-> "None", keys |-> {}, status |-> ""]

\* the route get_job_status: BatchJobStatusResponse(**status_info) raises
\* TypeError for None and ValidationError for a missing field, and
\* "except Exception" answers 500 with the exception's text
get_job_status(t, job_id) ==
    LET status_info == get_status(t, job_id)
        exception == IF status_info.value = "None" THEN "TypeError"
                     ELSE IF ~(RequiredFields \subseteq status_info.keys)
                     THEN "ValidationError"
                     ELSE "none"
    IN  [op |-> "get_job_status", job_id |-> job_id,
         status_info |-> status_info.value,
         status_code |-> IF exception = "none" THEN "200" ELSE "500",
         detail |-> exception]

\* job ids of the status queries: those of the jobs, and one of no job
QueryIds == JobIds \cup {"unknown"}

InitOps ==
    /\ InitState
    /\ queue = EmptyQueue

\* an hour passes
TimePasses ==
    /\ clock < MaxClock
    /\ clock' = clock + 1
    /\ UNCHANGED <<table, queue, api, wpc, running, batch, cur, outcome, call,
                   faults, timeouts, hist, request, containers, blobs, ret,
                   enq, h, sync, arg, out>>

\* job_tracker.cleanup_old_jobs(max_age_hours)
CleanupOldJobs(max_age_hours) ==
    /\ LET r == cleanup_old_jobs(table, clock, max_age_hours) IN
        /\ table' = r.table
        /\ out' = [op |-> "cleanup_old_jobs", deleted_count |-> r.deleted_count,
                   cutoff_time |-> r.cutoff_time]
    /\ UNCHANGED <<clock, queue, api, wpc, running, batch, cur, outcome, call,
                   faults, timeouts, hist, request, containers, blobs, ret,
                   enq, h, sync, arg>>

\* GET /batch/jobs/{job_id}
GetJobStatus(job_id) ==
    /\ out' = get_job_status(table, job_id)
    /\ UNCHANGED <<table, clock, queue, api, wpc, running, batch, cur, outcome,
                   call, faults, timeouts, hist, request, containers, blobs,
                   ret, enq, h, sync, arg>>

\* the arguments of the update_progress calls the service makes
UnitArgs ==
    {[processed |-> 1, failed |-> 0, status |-> ""],
     [processed |-> 0, failed |-> 1, status |-> ""],
     [processed |-> 0, failed |-> 0, status |-> "processing"]}

\* the tracker's caller is the API process
NextOps ==
    \/ \E j \in JobIds, n \in Files : ClientCreate(API, j, n)
    \/ \E j \in JobIds, u \in UnitArgs :
          ClientUpdateGet(API, j, u.processed, u.failed, u.status)
    \/ \E j \in JobIds, error \in {"", "error"} : ClientMarkGet(API, j, error)
    \/ ClientPut(API)
    \/ TimePasses
    \/ \E max_age_hours \in 0..MaxAge : CleanupOldJobs(max_age_hours)
    \/ \E job_id \in QueryIds : GetJobStatus(job_id)

SpecOps == InitOps /\ [][NextOps]_vars

\* ------------------------------------------ annotate_text_with_dictionary
\* The annotator applied to texts of a few words and to a few dictionaries.

\* words of a text
MaxLen == 3

\* the pieces of the texts
Words == {"Azure", "azure", "Translator", Blank, "API", "api", "S", "$", "100"}

\* the texts of at most n words
RECURSIVE Texts(_)
Texts(n) ==
    IF n = 0 THEN {<<>>}
    ELSE Texts(n - 1)
           \cup {Append(t, w) : t \in {x \in Texts(n - 1) : Len(x) = n - 1},
                               w \in Words}

\* "Azure Translator is better than Azure services."
LongestFirstText ==
    <<"Azure", Blank, "Translator", Blank, "is", Blank, "better", Blank,
      "than", Blank, "Azure", Blank, "services", ".">>

\* {"Azure": "Azure", "Azure Translator": "Azure Translator"}
LongestFirstDictionary ==
    <<[term |-> <<"Azure">>, translation |-> <<"Azure">>],
      [term |-> <<"Azure", Blank, "Translator">>,
       translation |-> <<"Azure", Blank, "Translator">>]>>

\* the same entries, the longer key first
LongestFirstReversed ==
    <<LongestFirstDictionary[2], LongestFirstDictionary[1]>>

\* "The API and APIS are different. Application is not API."
WholeWordText ==
    <<"The", Blank, "API", Blank, "and", Blank, "API", "S", Blank, "are",
      Blank, "different", ".", Blank, "Application", Blank, "is", Blank,
      "not", Blank, "API", ".">>

\* {"API": "API"}
WholeWordDictionary == <<[term |-> <<"API">>, translation |-> <<"API">>]>>

\* {"api": "API"}
CaseDictionary == <<[term |-> <<"api">>, translation |-> <<"API">>]>>

\* "The cost is $100 and the regex is .*test."
SpecialText ==
    <<"The", Blank, "cost", Blank, "is", Blank, "$", "100", Blank, "and",
      Blank, "the", Blank, "regex", Blank, "is", Blank, ".", "*", "test", ".">>

\* {"$100": "$100", ".*test": ".*test"}
SpecialDictionary ==
    <<[term |-> <<"$", "100">>, translation |-> <<"$", "100">>],
      [term |-> <<".", "*", "test">>, translation |-> <<".", "*", "test">>]>>

\* {"$100": "$100"}
DollarDictionary == <<SpecialDictionary[1]>>

Dictionaries ==
    {None, Glossary, LongestFirstDictionary, LongestFirstReversed,
     WholeWordDictionary, CaseDictionary, SpecialDictionary, DollarDictionary}

InitAnnotate ==
    /\ InitCore
    /\ queue = EmptyQueue
    /\ containers = {"source"}
    /\ blobs = {}
    /\ arg \in [text : Texts(MaxLen) \cup {LongestFirstText, WholeWordText,
                                            SpecialText},
                dictionary : Dictionaries]

\* service.annotate_text_with_dictionary(text, dictionary)
Annotate ==
    /\ out = NoOut
    /\ out' = [op |-> "annotate_text_with_dictionary",
               text |-> annotate_text_with_dictionary(arg.text, arg.dictionary)]
    /\ UNCHANGED <<table, clock, queue, api, wpc, running, batch, cur, outcome,
                   call, faults, timeouts, hist, request, containers, blobs,
                   ret, enq, h, sync, arg>>

NextAnnotate == Annotate

SpecAnnotate == InitAnnotate /\ [][NextAnnotate]_vars

\* ------------------------------------------------------------- the claims

Sum(entity) == entity.processed_files + entity.failed_files
NoCallInFlight == \A p \in Procs : call[p] = NoCall

\* C1: for a job created with total_files = N, once N update_progress calls,
\* each +1 processed or +1 failed, have been issued by concurrent callers and
\* have returned, the record has processed_files + failed_files = N, status
\* completed and completed_at set.
C1_NoIncrementLost ==
    \A j \in DOMAIN table :
        (hist.other = 0 /\ hist.inc = table[j].total_files /\ NoCallInFlight)
            => /\ Sum(table[j]) = table[j].total_files
               /\ table[j].status = "completed"
               /\ table[j].completed_at # 0

\* C2: in queue mode processed_files + failed_files never exceeds
\* total_files, whatever the deliveries, handler failures and redeliveries.
C2_CountersWithinTotal ==
    \A j \in DOMAIN table : Sum(table[j]) <= table[j].total_files

\* C3: once a record's status is completed or failed, no step changes the
\* status or stamps completed_at again.
C3_TerminalOnce ==
    [][\A j \in DOMAIN table :
          table[j].status \in {"completed", "failed"}
              => /\ j \in DOMAIN table'
                 /\ table'[j].status = table[j].status
                 /\ table'[j].completed_at = table[j].completed_at]_vars

\* C4 as stated: a record's status is completed exactly when its
\* processed_files + failed_files is at least total_files with total_files > 0.
C4_CompletedExactlyWhenAllDone ==
    \A j \in DOMAIN table :
        table[j].status = "completed"
            <=> (Sum(table[j]) >= table[j].total_files /\ table[j].total_files > 0)

\* C4 as amended: as long as no caller has issued mark_completed or an
\* update_progress naming the status completed, a record's status is
\* completed exactly when its processed_files + failed_files is at least
\* total_files with total_files > 0.
C4_CompletedIffAllDoneUnlessForced ==
    hist.forced = 0 => C4_CompletedExactlyWhenAllDone

\* a job that update_progress completed on the last of its units
C4_Witness ==
    \E j \in DOMAIN table :
        /\ hist.forced = 0
        /\ hist.inc = table[j].total_files
        /\ table[j].status = "completed"
        /\ Sum(table[j]) = table[j].total_files

\* C5: the stored processed_files and failed_files never decrease.
C5_CountersMonotonic ==
    [][\A j \in DOMAIN table :
          /\ j \in DOMAIN table'
          /\ table'[j].processed_files >= table[j].processed_files
          /\ table'[j].failed_files >= table[j].failed_files]_vars

\* C6: an update_progress called with status='failed' whose counters reach
\* total_files (> 0) in that call stores the status failed.
C6_ExplicitFailedKept ==
    [][\A c \in Clients :
          (/\ call[c].op = "update_progress"
           /\ call[c].found
           /\ call[c].status = "failed"
           /\ Sum(call[c].entity) >= call[c].entity.total_files
           /\ call[c].entity.total_files > 0
           /\ call'[c] = NoCall
           /\ call[c].job_id \in DOMAIN table')
              => table'[call[c].job_id].status = "failed"]_vars

\* C7: a record with processed_files + failed_files > 0 is not queued.
C7_ProgressMeansNotQueued ==
    \A j \in DOMAIN table : Sum(table[j]) > 0 => table[j].status # "queued"

\* C8: a message leaves the queue only by the delete_message of a worker
\* whose process_queue_message returned for that message without raising.
C8_DeleteOnlyAfterSuccess ==
    [][\A id \in DOMAIN queue :
          id \notin DOMAIN queue'
              => \E w \in Workers :
                    /\ wpc[w] = "delete"
                    /\ wpc'[w] # "delete"
                    /\ cur[w].id = id
                    /\ outcome[w] \in {"ok", "empty"}]_vars

\* a work item was handled without raising and deleted, and a handler
\* raised for a work item that is still in the queue
C8_Witness ==
    /\ \E id \in Files : id <= api.sent /\ id \notin DOMAIN queue
    /\ faults > 0
    /\ \E id \in Files : id \in DOMAIN queue /\ queue[id].dequeue_count > 0

\* C9: a payload that is not JSON is deleted by the worker that takes it
\* from its page: once received it is either still waiting in a worker's
\* page or gone from the queue.
C9_MalformedDeleted ==
    \A id \in DOMAIN queue :
        (/\ queue[id].content.kind = "malformed"
         /\ queue[id].dequeue_count > 0
         /\ \A w \in Workers : wpc[w] # "exited")
            => \E w \in Workers : \E m \in batch[w] : m.id = id

\* C10: a worker that exits on the shutdown signal has no message in
\* flight: the handler of the message it was processing ran to its end.
C10_ExitAfterHandler ==
    \A w \in Workers : wpc[w] = "exited" => cur[w] = NoMsg

\* C11: after the shutdown signal a worker issues no further
\* receive_messages call and its polling loop ends: the signal handler
\* leaves the loop at once, and a worker that has left it never receives
\* a page again.
C11_NoReceiveAfterSignal ==
    [][\A w \in Workers :
          /\ ~running'[w] => wpc'[w] = "exited"
          /\ wpc[w] = "exited" => (wpc'[w] = "exited" /\ batch'[w] = {})]_vars

\* a worker has exited while the queue holds a message it could have received
C11_Witness ==
    \E w \in Workers :
        /\ ~running[w]
        /\ wpc[w] = "exited"
        /\ \E id \in Visible(queue) : queue[id].content.kind = "work"

\* the places of a worker inside process_queue_message
HandlerPcs == {"handle", "translate", "translate_with_llm", "write_nmt",
               "write_llm", "upd_get", "upd_put"}

\* C12 as stated: at no time are two workers inside process_queue_message
\* for the same message.
C12_OneAttemptAtATime ==
    \A w1, w2 \in Workers :
        (w1 # w2 /\ wpc[w1] \in HandlerPcs /\ wpc[w2] \in HandlerPcs)
            => cur[w1].id # cur[w2].id

\* C12 as amended: as long as no visibility timeout has run out on a
\* message that was received and not yet deleted, no two workers are inside
\* process_queue_message for the same message.
C12_OneAttemptUntilTimeout ==
    timeouts = 0 => C12_OneAttemptAtATime

\* both workers are inside process_queue_message, each for a message of
\* its own, and no visibility timeout has run out
C12_Witness ==
    /\ timeouts = 0
    /\ \A w \in Workers : wpc[w] \in HandlerPcs /\ cur[w].content.kind = "work"

\* C13: whenever an exception of process_queue_message reaches the worker
\* loop, the handler has called update_progress(job_id, failed=1) for the
\* message's job: one failed unit and no processed unit.
C13_FailedUnitBeforeRaise ==
    [][\A w \in Workers :
          (wpc[w] \in HandlerPcs /\ wpc'[w] \in {"poll", "next"})
              => /\ call[w].op = "update_progress"
                 /\ call[w].found
                     => /\ call[w].entity.failed_files = call[w].read.failed_files + 1
                        /\ call[w].entity.processed_files
                               = call[w].read.processed_files]_vars

\* C14: when the LLM step (translate_with_llm or the write of the LLM blob)
\* fails after the NMT result was obtained, the NMT blob is in the target
\* container and the handler's update_progress adds no failed unit.
C14_LlmFailureKeepsNmt ==
    \A w \in Workers :
        (wpc[w] = "upd_put" /\ h[w].raised_at \in {"translate_with_llm", "write_llm"})
            => /\ BlobPath("nmt", cur[w].content.source_blob) \in blobs
               /\ call[w].entity.failed_files = call[w].read.failed_files

\* C15: an update_progress that finds no record for its job id returns
\* without raising and leaves the table as it is: it creates no record.
C15_UpdateOfUnknownJob ==
    [][\A c \in Clients :
          (call[c].op = "update_progress" /\ ~call[c].found /\ call'[c] = NoCall)
              => /\ table' = table
                 /\ call[c].result = "returned"]_vars

\* update_progress calls have been issued and have returned, none of them
\* found a record, and there is none
C15_Witness ==
    /\ table = EmptyTable
    /\ hist.other > 0
    /\ hist.forced = 0
    /\ NoCallInFlight

\* C16: a create_job for a job id that has a record raises AlreadyExists
\* and leaves the record as it is.
C16_CreateSignalsConflict ==
    [][\A j \in DOMAIN table :
          (ret' # ret /\ ret'.op = "create_job" /\ ret'.job_id = j)
              => /\ ret'.result = "AlreadyExists"
                 /\ table' = table]_vars

\* C17: a start_batch_job whose source and target containers are the same
\* raises the validation error with no container created, no listing made,
\* no record created and no message sent.
C17_ValidationBeforeSideEffects ==
    (api.pc # "idle" /\ request.source_container = request.target_container)
        => /\ api.pc = "raised"
           /\ ret.result = "ValueError"
           /\ containers = {"source"}
           /\ table = EmptyTable
           /\ enq = <<>>
           /\ \A id \in DOMAIN queue : queue[id].content.kind # "work"

\* a request with one container for source and target has been rejected
C17_Witness ==
    /\ request.source_container = request.target_container
    /\ api.pc = "raised"
    /\ ret = Raised("start_batch_job", api.job_id, "ValueError")

\* C18: once start_batch_job has returned for a listing of N > 0 names, it
\* has sent N messages, the k-th for the k-th name, all with the job id it
\* returns, the record of that job id exists with total_files = N, and the
\* status it returns is queued.
C18_QueuedReturn ==
    (api.pc = "done" /\ api.total > 0)
        => /\ ret = Returned("start_batch_job", api.job_id, "queued", api.total, FALSE)
           /\ Len(enq) = api.total
           /\ \A k \in 1..Len(enq) :
                /\ enq[k].kind = "work"
                /\ enq[k].source_blob = k
                /\ enq[k].job_id = ret.job_id
           /\ ret.job_id \in DOMAIN table
           /\ table[ret.job_id].total_files = api.total

\* start_batch_job has returned for a listing of MaxFiles names
C18_Witness ==
    /\ api.pc = "done"
    /\ api.total = MaxFiles
    /\ ret.status = "queued"

\* C19: for an empty listing start_batch_job returns status completed and
\* total_files = 0, with no record created and no message sent.
C19_EmptyListing ==
    (api.pc = "done" /\ api.total = 0)
        => /\ ret = Returned("start_batch_job", api.job_id, "completed", 0, FALSE)
           /\ table = EmptyTable
           /\ enq = <<>>

\* start_batch_job has returned for an empty listing
C19_Witness ==
    /\ api.pc = "done"
    /\ api.total = 0
    /\ ret.status = "completed"
    /\ containers = Containers

\* C20: every message sent for the job carries the dictionary of the
\* request, and the text each engine is sent is the content annotated with
\* that dictionary.
C20_DictionaryApplied ==
    /\ \A k \in 1..Len(enq) : enq[k].dictionary = request.dictionary
    /\ \A w \in Workers :
        /\ h[w].nmt_text # <<>>
            => h[w].nmt_text
                 = annotate_text_with_dictionary(Content, request.dictionary)
        /\ h[w].llm_text # <<>>
            => h[w].llm_text
                 = annotate_text_with_dictionary(Content, request.dictionary)

\* the two output names of a source blob
Outputs(source_blob) ==
    {<<"nmt", base_name(source_blob)>>, <<"llm", base_name(source_blob)>>}

C22_EmptyContent ==
    [][\A w \in Workers :
          (wpc[w] = "upd_put" /\ outcome[w] = "empty")
              => /\ h[w].nmt_text = <<>>
                 /\ h[w].llm_text = <<>>
                 /\ h[w].written = {}
                 /\ call[w].op = "update_progress"
                 /\ call[w].found
                     => /\ call[w].entity.failed_files
                              = call[w].read.failed_files + 1
                        /\ call[w].entity.processed_files
                              = call[w].read.processed_files
                 /\ wpc'[w] # wpc[w] => wpc'[w] = "delete"]_vars

\* the message of an empty source blob has been deleted, its failed unit
\* recorded and no blob written
C22_Witness ==
    /\ blobs = {}
    /\ faults = 0
    /\ \E j \in DOMAIN table : table[j].failed_files = 1
    /\ \E id \in Files : id <= api.sent /\ id \notin DOMAIN queue

\* C29: a write of nmt/<basename> or llm/<basename> for a work item whose
\* two output blobs are in the target container adds no blob, and raises
\* only if the store fails, never because the blob exists.
C29_RedeliveryOverwrites ==
    [][\A w \in Workers :
          (/\ wpc[w] \in {"write_nmt", "write_llm"}
           /\ wpc'[w] # wpc[w]
           /\ Outputs(cur[w].content.source_blob) \subseteq blobs)
              => /\ blobs' = blobs
                 /\ faults' = faults => h'[w].raised_at = ""]_vars

\* the one work item of a job is processed a second time, after a first
\* processing that wrote both blobs, and is writing its blobs again
C29_Witness ==
    \E w \in Workers :
        /\ api.total = 1
        /\ wpc[w] = "write_llm"
        /\ cur[w].pop_receipt = 2
        /\ Outputs(cur[w].content.source_blob) \subseteq blobs
        /\ h[w].written = {<<"nmt", base_name(cur[w].content.source_blob)>>}

\* C23: in synchronous mode a file whose NMT block failed is counted as
\* failed and no LLM call was made for it; a file whose NMT block succeeded
\* and whose LLM block failed is counted as processed, and its blob
\* nmt/<filename> is in the target container.
C23_SyncNmtAndLlmFailures ==
    \A k \in 1..Len(sync.log) :
        /\ sync.log[k].nmt = "failed"
            => /\ sync.log[k].counted = "failed"
               /\ sync.log[k].llm = "none"
        /\ (sync.log[k].nmt = "written" /\ sync.log[k].llm = "failed")
            => /\ sync.log[k].counted = "processed"
               /\ <<"nmt", base_name(k)>> \in blobs

\* the summary counts one file whose NMT request raised and one file whose
\* LLM request raised
C23_Witness ==
    /\ sync.pc = "done"
    /\ \E k \in 1..Len(sync.log) : sync.log[k].nmt = "failed"
    /\ \E k \in 1..Len(sync.log) : sync.log[k].llm = "failed"
    /\ sync.last.result = "raised"

\* C24: in synchronous mode every listed file is counted once, whatever
\* fails: the files counted are the files the loop has left behind, and the
\* summary has processed_files + failed_files = total_files.
C24_SyncEveryFileCounted ==
    /\ sync.processed_files + sync.failed_files = Len(sync.log)
    /\ sync.pc \in {"read", "translate", "write_nmt", "translate_with_llm",
                    "write_llm"} => Len(sync.log) = sync.blob - 1
    /\ sync.pc = "done" => Len(sync.log) = sync.total

\* the summary of MaxFiles files, of which the first could not be read or
\* was empty and the last failed in its LLM block
C24_Witness ==
    /\ sync.pc = "done"
    /\ sync.total = MaxFiles
    /\ sync.log[1].nmt = "none"
    /\ sync.log[MaxFiles].llm = "failed"
    /\ sync.processed_files + sync.failed_files = MaxFiles

\* C27: an engine call that raised on a connection error or on a 429
\* response had made 3 attempts, unless the 30 seconds of the retries had
\* run out.
C27_TransientRetried ==
    (sync.last.result = "raised" /\ sync.last.cause \in {"RequestError", "429"})
        => \/ sync.last.attempts = MaxTries
           \/ sync.last.time_up

\* C28: list_translated_files gives as matched names exactly the names
\* that, with the leading prefix taken off, are listed under nmt/ and under
\* llm/; total_nmt and total_llm are the numbers of blobs listed under each
\* prefix, and matched is the number of matched names.
C28_MatchedPairs ==
    out.op = "list_translated_files"
        => LET nmt_files == list_blobs_prefix(blobs, "nmt")
               llm_files == list_blobs_prefix(blobs, "llm")
               pairs == {Tail(name) : name \in nmt_files}
                            \cap {Tail(name) : name \in llm_files}
           IN  /\ out.files = pairs
               /\ out.total_nmt = Cardinality(nmt_files)
               /\ out.total_llm = Cardinality(llm_files)
               /\ out.matched = Cardinality(pairs)

\* C25: a status query for a job id that has no record gets an explicit
\* not-found answer: get_job_status of the service returns None, and the
\* route answers 404.
C25_UnknownJobNotFound ==
    (out.op = "get_job_status" /\ out.job_id \notin DOMAIN table)
        => /\ out.status_info = "None"
           /\ out.status_code = "404"

\* C26: cleanup_old_jobs deletes only records whose status is completed or
\* failed and whose completed_at is set and earlier than the cutoff.
C26_CleanupOnlyTerminal ==
    [][\A j \in DOMAIN table :
          j \notin DOMAIN table'
              => /\ table[j].status \in {"completed", "failed"}
                 /\ table[j].completed_at # 0
                 /\ table[j].completed_at < out'.cutoff_time]_vars

\* result.count('<mstrans:dictionary')
Markers(text) == Cardinality({i \in 1..Len(text) : text[i] = MarkerOpen})

\* a marker begins before the marker that began before it has ended
Nested(text) ==
    \E i, j \in 1..Len(text) :
        /\ i < j
        /\ text[i] = MarkerOpen
        /\ text[j] = MarkerOpen
        /\ \A k \in i..j : text[k] # MarkerClose

\* C30: with the terms "Azure" and "Azure Translator" in the dictionary,
\* the annotated text has one marker for each occurrence of the phrase and
\* one for each occurrence of "Azure" that no "Translator" follows, no
\* marker inside another marker, and, for "Azure Translator is better than
\* Azure services.", two markers.
C30_LongestFirst ==
    (/\ out.op = "annotate_text_with_dictionary"
     /\ arg.dictionary \in {LongestFirstDictionary, LongestFirstReversed})
        => LET phrase == {i \in 1..Len(arg.text) :
                            MatchAt(arg.text, <<"Azure", Blank, "Translator">>, i)}
               alone == {i \in 1..Len(arg.text) :
                            MatchAt(arg.text, <<"Azure">>, i)} \ phrase
           IN  /\ Markers(out.text)
                    = Cardinality(phrase) + Cardinality(alone)
               /\ ~Nested(out.text)
               /\ arg.text = LongestFirstText => Markers(out.text) = 2

Annotated == out.op = "annotate_text_with_dictionary"

\* the term stands at piece i with no word character next to it
WholeWordAt(text, term, i) ==
    /\ Literal(text, term, i)
    /\ ~WordAt(text, i - 1)
    /\ ~WordAt(text, i + Len(term))

\* C31: with one term in the dictionary, the markers of the output are as
\* many as the places of the input where the term stands, in any casing,
\* with no word character next to it.
C31_SingleTermWholeWords ==
    (Annotated /\ Len(arg.dictionary) = 1)
        => Markers(out.text)
             = Cardinality({i \in 1..Len(arg.text) :
                              WholeWordAt(arg.text, arg.dictionary[1].term, i)})

\* "APIS" and "Application" stand in the output as in the input
C32_Unannotated ==
    /\ \E i \in 1..(Len(out.text) - 1) :
          out.text[i] = "API" /\ out.text[i + 1] = "S"
    /\ \E i \in 1..Len(out.text) : out.text[i] = "Application"

RECURSIVE Unwrap(_, _)
Unwrap(text, in_attribute) ==
    IF text = <<>> THEN <<>>
    ELSE IF Head(text) = MarkerOpen THEN Unwrap(Tail(text), TRUE)
    ELSE IF in_attribute THEN Unwrap(Tail(text), Head(text) # MarkerMid)
    ELSE IF Head(text) = MarkerClose THEN Unwrap(Tail(text), FALSE)
    ELSE <<Head(text)>> \o Unwrap(Tail(text), FALSE)

\* C33: with one term in the dictionary, the output without its markers,
\* their bodies kept, is the input.
C33_BodiesAreTheInput ==
    (Annotated /\ Len(arg.dictionary) = 1)
        => Unwrap(out.text, FALSE) = arg.text

\* C34: with a dictionary that is empty or None the output is the input.
C34_NoDictionaryIdentity ==
    (Annotated /\ arg.dictionary = None) => out.text = arg.text

\* a text that holds a term of the glossary has been annotated with no
\* dictionary
C34_Witness ==
    /\ Annotated
    /\ arg.dictionary = None
    /\ \E i \in 1..Len(arg.text) : MatchAt(arg.text, Glossary[1].term, i)

\* C35: with the dictionary {"$100": "$100"}, a text in which "$100" stands
\* after a blank has a marker in the output.
C35_DollarTermWrapped ==
    (/\ Annotated
     /\ arg.dictionary = DollarDictionary
     /\ \E i \in 2..Len(arg.text) :
          /\ arg.text[i - 1] = Blank
          /\ WholeWordAt(arg.text, DollarDictionary[1].term, i))
        => Markers(out.text) >= 1

\* the work items of a job that are in the queue, visible or leased
WorkItemsOf(job_id) ==
    {id \in DOMAIN queue :
        queue[id].content.kind = "work" /\ queue[id].content.job_id = job_id}

\* the messages a worker has handled and is about to delete
BeingDeleted == {cur[w].id : w \in {v \in Workers : wpc[v] = "delete"}}

\* C36: while a job's status is completed, no work item of the job is in the
\* queue, visible or leased, but for the ones whose handler has returned and
\* whose delete_message is the worker's next statement.
C36_CompletedLeavesNoWorkItem ==
    \A job_id \in DOMAIN table :
        table[job_id].status = "completed"
            => WorkItemsOf(job_id) \subseteq BeingDeleted

\* the work items start_batch_job has sent for a job
Enqueued(job_id) == {k \in 1..Len(enq) : enq[k].job_id = job_id}

\* C38: once start_batch_job has raised from send_message, the table holds
\* no job whose total_files is more than the work items enqueued for it.
C38_NoJobBeyondItsWorkItems ==
    (api.pc = "raised" /\ ret.result = "HttpResponseError")
        => \A job_id \in DOMAIN table :
              table[job_id].total_files <= Cardinality(Enqueued(job_id))

\* the blobs of the target container under a prefix
Under(prefix) == {name \in blobs : name[1] = prefix}

\* C39: once every file of a job has been processed successfully, each one
\* once (no call has failed and no message has been delivered twice), the
\* target container holds as many blobs under nmt/ and as many under llm/ as
\* the job has files.
C39_OneOutputPerSourceBlob ==
    \A job_id \in DOMAIN table :
        (/\ table[job_id].status = "completed"
         /\ table[job_id].processed_files = table[job_id].total_files
         /\ faults = 0
         /\ timeouts = 0)
            => /\ Cardinality(Under("nmt")) = table[job_id].total_files
               /\ Cardinality(Under("llm")) = table[job_id].total_files

\* start_batch_job has returned, every worker is between two polls and no
\* message is visible: no process has a statement that changes the table
Quiescent ==
    /\ api.pc = "done"
    /\ \A w \in Workers : wpc[w] = "poll" /\ batch[w] = {}
    /\ Visible(queue) = {}
    /\ NoCallInFlight

\* C37: when start_batch_job has returned, the workers have handled every
\* message and all are polling an empty queue, every job created with
\* total_files > 0 has status completed.
C37_QuiescentMeansCompleted ==
    Quiescent
        => \A job_id \in DOMAIN table :
              table[job_id].total_files > 0 => table[job_id].status = "completed"

====
